---- MODULE Spec2Model ----
(***************************************************************************)
(* A model of the statechart runtime.                                      *)
(*                                                                         *)
(*   - Metadata (statechart/runtime.py): the active-state registry and the *)
(*     history map, one operator per method, one action per call.          *)
(*   - The state hierarchy (State, CompositeState, ConcurrentState, the    *)
(*     pseudostates, Transition, Statechart): activation, deactivation and *)
(*     event dispatch, driving Metadata.                                   *)
(*                                                                         *)
(* Two specifications share the variables:                                 *)
(*   Spec       any sequence of direct calls on a Metadata object          *)
(*   ChartSpec  a chart that is started and then receives events           *)
(***************************************************************************)
EXTENDS Naturals, Sequences, FiniteSets, TLC

VARIABLES
    active_states,   \* Metadata.active_states: State -> current_state of its record
    history_states,  \* Metadata._history_states: HistoryState -> State
    call,            \* the last call made: its operation, arguments and outcome
    pre,             \* the Metadata as it was when the last call was made
    stored,          \* per history key, the actual_state of the last direct
                     \* store_history_info call since reset (kept by Spec only)
    exited_with,     \* per context with a History, its substate when last exited
    started,         \* Statechart.start() has run
    initial_end,     \* the end of the root Initial state's transition (chart construction)
    trace,           \* the log of the last call: what it did, in order
    transitions,     \* State._transitions of every state
    scope            \* a Scope: its maps (a list of dicts) and the dicts

vars ==
    <<active_states, history_states, call, pre, stored, exited_with, started,
      initial_end, trace, transitions, scope>>

(***************************************************************************)
(* Bounds.                                                                 *)
(***************************************************************************)
\* Number of orthogonal regions of the keyboard state (caps, num, scroll ...).
NumRegions == 2

Regions == 1 .. NumRegions

(***************************************************************************)
(* The chart: the submachine chart and the keyboard chart of the tests,    *)
(* under one root.  A state is <<name, index>>.                            *)
(***************************************************************************)
None == <<"None", 0>>

statechart == <<"statechart", 0>>
init == <<"init", 0>>
keyboard == <<"keyboard", 0>>
final_state == <<"final", 0>>

\* The two Submachine instances, 'top a' and 'top b'.
Submachines == {1, 2}

top(k) == <<"top", k>>
init_submachine(k) == <<"init_submachine", k>>
sub_state_a(k) == <<"sub_state_a", k>>
sub_state_b(k) == <<"sub_state_b", k>>
history(k) == <<"history", k>>

lock(i) == <<"lock", i>>
lock_initial(i) == <<"lock_initial", i>>
lock_on(i) == <<"lock_on", i>>
lock_off(i) == <<"lock_off", i>>

States ==
    {statechart, init, keyboard, final_state}
    \cup {top(k) : k \in Submachines}
    \cup {init_submachine(k) : k \in Submachines}
    \cup {sub_state_a(k) : k \in Submachines}
    \cup {sub_state_b(k) : k \in Submachines}
    \cup {history(k) : k \in Submachines}
    \cup {lock(i) : i \in Regions}
    \cup {lock_initial(i) : i \in Regions}
    \cup {lock_on(i) : i \in Regions}
    \cup {lock_off(i) : i \in Regions}

\* State.context: the owning parent, None for the root.
Context(s) ==
    CASE s[1] = "statechart" -> None
      [] s[1] \in {"init", "keyboard", "top", "final"} -> statechart
      [] s[1] \in {"init_submachine", "sub_state_a", "sub_state_b", "history"} -> top(s[2])
      [] s[1] = "lock" -> keyboard
      [] s[1] \in {"lock_initial", "lock_on", "lock_off"} -> lock(s[2])
      [] OTHER -> None

\* The variant of a state.
Kind(s) ==
    CASE s[1] = "statechart" -> "Statechart"
      [] s[1] \in {"init", "init_submachine", "lock_initial"} -> "Initial"
      [] s[1] \in {"top", "lock"} -> "Composite"
      [] s[1] = "keyboard" -> "Concurrent"
      [] s[1] = "history" -> "History"
      [] s[1] = "final" -> "Final"
      [] OTHER -> "Simple"

(***************************************************************************)
(* Events.                                                                 *)
(***************************************************************************)
NoEvent == <<"None", 0>>
sub_cd == <<"sub_cd", 0>>
top_ab == <<"top_ab", 0>>
top_ba == <<"top_ba", 0>>
to_keyboard == <<"to_keyboard", 0>>
kb_exit == <<"kb_exit", 0>>
leave == <<"leave", 0>>
unhandled == <<"unhandled", 0>>
lock_pressed(i) == <<"lock_pressed", i>>

Events ==
    {sub_cd, top_ab, top_ba, to_keyboard, kb_exit, leave, unhandled}
    \cup {lock_pressed(i) : i \in Regions}

(***************************************************************************)
(* Metadata.  A call works on a frame md: the two maps of the Metadata     *)
(* object, the exception raised so far (NoError: none) and the value       *)
(* returned.  A raised exception ends the call: every later step of the    *)
(* same call leaves the frame alone.                                       *)
(***************************************************************************)
NoError == "none"
ParentNotActivated == "Parent state not activated"
KeyError == "KeyError"
DispatchIntoFinal == "Final state cannot dispatch"
InvalidTransition == "Invalid transition"

EmptyMap == [x \in {} |-> None]

Remove(f, k) == [x \in (DOMAIN f) \ {k} |-> f[x]]

Put(f, k, v) == [x \in (DOMAIN f) \cup {k} |-> IF x = k THEN v ELSE f[x]]

\* Metadata.__init__
Metadata_init ==
    [active_states |-> EmptyMap, history_states |-> EmptyMap,
     error |-> NoError, value |-> None, consumed |-> FALSE, log |-> <<>>]

\* A line of the log of a call: the operation, the state (or history key, or
\* start of the transition) it works on, and its argument (the event of a
\* dispatch, the end of a transition), None if it has none.
Entry(op, state, arg) == [op |-> op, state |-> state, arg |-> arg]

\* The log of frame md with one more line.
Note(md, op, state, arg) == [md EXCEPT !.log = Append(@, Entry(op, state, arg))]

\* self._logger.info(...) at the start of a Metadata method.
Logged(md, op, state) == [md EXCEPT !.log = Append(@, Entry(op, state, None))]

\* A variant of is_active that answers the opposite.
is_active_inverted(md, state) == state \notin DOMAIN md.active_states

\* Metadata.is_active
is_active(md, state) == state \in DOMAIN md.active_states

\* Metadata.has_history_info
has_history_info(md, history_state) == history_state \in DOMAIN md.history_states

\* A variant of activate that tests the state itself, not its context, for
\* membership: the parent check never fires and the lookup of the parent fails.
activate_checks_self(m, state) ==
    IF m.error # NoError THEN m
    ELSE
    LET md == Logged(m, "activate", state) IN
    LET own == Put(md.active_states, state, None)
    IN  IF Context(state) # None
        THEN IF Context(state) \notin DOMAIN own
             THEN [md EXCEPT !.active_states = own, !.error = KeyError]
             ELSE [md EXCEPT !.active_states = [own EXCEPT ![Context(state)] = state]]
        ELSE [md EXCEPT !.active_states = own]

\* A variant of activate that clears current_state only in a record it creates.
activate_keeps_record(m, state) ==
    IF m.error # NoError THEN m
    ELSE
    LET md == Logged(m, "activate", state) IN
    LET own == IF state \notin DOMAIN md.active_states
               THEN Put(md.active_states, state, None)
               ELSE md.active_states
    IN  IF Context(state) # None
        THEN IF Context(state) \notin DOMAIN own
             THEN [md EXCEPT !.active_states = own, !.error = ParentNotActivated]
             ELSE [md EXCEPT !.active_states = [own EXCEPT ![Context(state)] = state]]
        ELSE [md EXCEPT !.active_states = own]

\* A variant of activate that does not record the state in its context's record.
activate_without_parent_record(m, state) ==
    IF m.error # NoError THEN m
    ELSE
    LET md == Logged(m, "activate", state) IN
    LET own == Put(md.active_states, state, None)
    IN  IF Context(state) # None /\ Context(state) \notin DOMAIN own
        THEN [md EXCEPT !.active_states = own, !.error = ParentNotActivated]
        ELSE [md EXCEPT !.active_states = own]

\* A variant of activate whose membership test is inverted: a record is created
\* only for a state that has one, and the lookup of a new state's record fails.
activate_inverted_test(m, state) ==
    IF m.error # NoError THEN m
    ELSE
    LET md == Logged(m, "activate", state) IN
    IF state \notin DOMAIN md.active_states
    THEN [md EXCEPT !.error = KeyError]
    ELSE
    LET own == [md.active_states EXCEPT ![state] = None]
    IN  IF Context(state) # None
        THEN IF Context(state) \notin DOMAIN own
             THEN [md EXCEPT !.active_states = own, !.error = ParentNotActivated]
             ELSE [md EXCEPT !.active_states = [own EXCEPT ![Context(state)] = state]]
        ELSE [md EXCEPT !.active_states = own]

\* A variant of activate that refuses a state that is already active.
activate_rejects_active(m, state) ==
    IF m.error # NoError THEN m
    ELSE
    LET md == Logged(m, "activate", state) IN
    IF state \in DOMAIN md.active_states
    THEN [md EXCEPT !.error = "State already active"]
    ELSE
    LET own == Put(md.active_states, state, None)
    IN  IF Context(state) # None
        THEN IF Context(state) \notin DOMAIN own
             THEN [md EXCEPT !.active_states = own, !.error = ParentNotActivated]
             ELSE [md EXCEPT !.active_states = [own EXCEPT ![Context(state)] = state]]
        ELSE [md EXCEPT !.active_states = own]

\* Metadata.activate
activate(m, state) ==
    IF m.error # NoError THEN m
    ELSE
    LET md == Logged(m, "activate", state) IN
    LET fresh == IF state \notin DOMAIN md.active_states
                 THEN Put(md.active_states, state, None)
                 ELSE md.active_states
        own == [fresh EXCEPT ![state] = None]
    IN  IF Context(state) # None
        THEN IF Context(state) \notin DOMAIN own
             THEN [md EXCEPT !.active_states = own, !.error = ParentNotActivated]
             ELSE [md EXCEPT !.active_states = [own EXCEPT ![Context(state)] = state]]
        ELSE [md EXCEPT !.active_states = own]

\* A variant of deactivate that also drops the records of the state's children.
deactivate_with_children(m, state) ==
    IF m.error # NoError THEN m
    ELSE
    LET md == Logged(m, "deactivate", state) IN
    IF state \in DOMAIN md.active_states
         THEN [md EXCEPT !.active_states =
                  [x \in {y \in DOMAIN md.active_states : y # state /\ Context(y) # state}
                      |-> md.active_states[x]]]
         ELSE md

\* A variant of deactivate that deletes the record without testing for it.
deactivate_unguarded(m, state) ==
    IF m.error # NoError THEN m
    ELSE
    LET md == Logged(m, "deactivate", state) IN
    IF state \in DOMAIN md.active_states
         THEN [md EXCEPT !.active_states = Remove(md.active_states, state)]
         ELSE [md EXCEPT !.error = KeyError]

\* A variant of deactivate that clears the record and never deletes it.
deactivate_keeps_record(m, state) ==
    IF m.error # NoError THEN m
    ELSE
    LET md == Logged(m, "deactivate", state) IN
    IF state \in DOMAIN md.active_states
         THEN [md EXCEPT !.active_states = [md.active_states EXCEPT ![state] = None]]
         ELSE md

\* Metadata.deactivate
deactivate(m, state) ==
    IF m.error # NoError THEN m
    ELSE
    LET md == Logged(m, "deactivate", state) IN
    IF state \in DOMAIN md.active_states
         THEN [md EXCEPT !.active_states = Remove(md.active_states, state)]
         ELSE md

\* Metadata.get_history_state
get_history_state(m, history_state) ==
    IF m.error # NoError THEN m
    ELSE
    LET md == Logged(m, "get_history_state", history_state) IN
    IF history_state \in DOMAIN md.history_states
         THEN [md EXCEPT !.value = md.history_states[history_state]]
         ELSE [md EXCEPT !.error = KeyError]

\* A variant of reset that clears the active states and keeps the history.
reset_active_states_only(m) ==
    IF m.error # NoError THEN m
    ELSE
    LET md == Logged(m, "reset", None) IN
    [md EXCEPT !.active_states = EmptyMap]

\* Metadata.reset
reset(m) ==
    IF m.error # NoError THEN m
    ELSE
    LET md == Logged(m, "reset", None) IN
    [md EXCEPT !.active_states = EmptyMap, !.history_states = EmptyMap]

\* A variant of store_history_info that keeps the first state recorded for a key.
store_history_info_first(m, history_state, actual_state) ==
    IF m.error # NoError THEN m
    ELSE
    LET md == Logged(m, "store_history_info", history_state) IN
    IF history_state \in DOMAIN md.history_states
         THEN md
         ELSE [md EXCEPT !.history_states =
                  Put(md.history_states, history_state, actual_state)]

\* Metadata.store_history_info
store_history_info(m, history_state, actual_state) ==
    IF m.error # NoError THEN m
    ELSE
    LET md == Logged(m, "store_history_info", history_state) IN
    [md EXCEPT !.history_states = Put(md.history_states, history_state, actual_state)]

(***************************************************************************)
(* The calls of the specifications.                                        *)
(***************************************************************************)
\* The frame a new call starts with: the Metadata as it is, nothing raised.
(***************************************************************************)
(* Scope: a ChainMap whose writes go to the layer that defines the key.    *)
(* maps is the list of layers, each a reference to a dict; two layers may  *)
(* be the same dict.                                                       *)
(***************************************************************************)
MaxLayers == 2
NumDicts == 2

Dicts == 1 .. NumDicts
Keys == {"x", "y"}
Values == {"v1", "v2"}

\* The dicts over Keys and Values.
DictValues == UNION {[K -> Values] : K \in SUBSET Keys}

\* The lists of at least one and at most MaxLayers layers.
LayerLists == UNION {[1 .. n -> Dicts] : n \in 1 .. MaxLayers}

\* Scope(): one empty layer.
NewScope == [maps |-> <<1>>, dicts |-> [d \in Dicts |-> EmptyMap]]

\* The positions in maps of the layers that define key.
Defining(sc, key) == {i \in DOMAIN sc.maps : key \in DOMAIN sc.dicts[sc.maps[i]]}

\* The first position of a non-empty set of positions.
First(positions) == CHOOSE i \in positions : \A j \in positions : i <= j

\* A variant of Scope.__setitem__ that always writes to maps[0], as ChainMap does.
Scope_setitem_innermost(sc, key, value) ==
    [sc EXCEPT !.dicts[sc.maps[1]] = Put(@, key, value)]

\* Scope.__setitem__
Scope_setitem(sc, key, value) ==
    IF Defining(sc, key) # {}
    THEN [sc EXCEPT !.dicts[sc.maps[First(Defining(sc, key))]] = Put(@, key, value)]
    ELSE [sc EXCEPT !.dicts[sc.maps[1]] = Put(@, key, value)]

\* ChainMap.__getitem__: the value in the first layer that defines key.
Scope_getitem(sc, key) ==
    IF Defining(sc, key) # {}
    THEN sc.dicts[sc.maps[First(Defining(sc, key))]][key]
    ELSE KeyError

\* No state owns a transition.
NoTransitions == [s \in States |-> <<>>]

Frame ==
    [active_states |-> active_states, history_states |-> history_states,
     error |-> NoError, value |-> None, consumed |-> FALSE, log |-> <<>>]

Snapshot ==
    [active_states |-> active_states, history_states |-> history_states,
     transitions |-> transitions, scope |-> scope]

\* What pre holds before the first call.
NoSnapshot ==
    [active_states |-> EmptyMap, history_states |-> EmptyMap,
     transitions |-> NoTransitions, scope |-> NewScope]

NoCall ==
    [op |-> "none", state |-> None, key |-> None, event |-> NoEvent,
     error |-> NoError, value |-> None, consumed |-> FALSE]

\* The call op(state, key, event) ended with frame md.
Returns(md, op, state, key, event) ==
    /\ active_states' = md.active_states
    /\ history_states' = md.history_states
    /\ pre' = Snapshot
    /\ trace' = md.log
    /\ UNCHANGED <<transitions, scope>>
    /\ call' = [op |-> op, state |-> state, key |-> key, event |-> event,
                error |-> md.error, value |-> md.value, consumed |-> md.consumed]

(***************************************************************************)
(* Spec: direct calls on one Metadata object.  The states and history keys *)
(* handed to it are those of the first submachine and its siblings.        *)
(***************************************************************************)
MetaStates == {statechart, top(1), top(2), sub_state_a(1), sub_state_b(1)}

MetaHistoryKeys == {history(1), history(2)}

MetaActualStates == {sub_state_a(1), sub_state_b(1)}

NothingStored == [h \in MetaHistoryKeys |-> None]

\* The contexts that own a History pseudostate.
HistoryContexts == {top(k) : k \in Submachines}

NeverExited == [c \in HistoryContexts |-> None]

Init ==
    /\ active_states = Metadata_init.active_states
    /\ history_states = Metadata_init.history_states
    /\ call = NoCall
    /\ pre = NoSnapshot
    /\ stored = NothingStored
    /\ exited_with = NeverExited
    /\ trace = <<>>
    /\ started = FALSE
    /\ initial_end = top(1)
    /\ transitions = NoTransitions
    /\ scope = NewScope

Activate(s) ==
    /\ Returns(activate(Frame, s), "activate", s, None, NoEvent)
    /\ UNCHANGED <<stored, exited_with, started, initial_end>>

Deactivate(s) ==
    /\ Returns(deactivate(Frame, s), "deactivate", s, None, NoEvent)
    /\ UNCHANGED <<stored, exited_with, started, initial_end>>

Reset ==
    /\ Returns(reset(Frame), "reset", None, None, NoEvent)
    /\ stored' = NothingStored
    /\ UNCHANGED <<exited_with, started, initial_end>>

StoreHistoryInfo(h, s) ==
    /\ Returns(store_history_info(Frame, h, s), "store_history_info", s, h, NoEvent)
    /\ stored' = [stored EXCEPT ![h] = s]
    /\ UNCHANGED <<exited_with, started, initial_end>>

GetHistoryState(h) ==
    /\ Returns(get_history_state(Frame, h), "get_history_state", None, h, NoEvent)
    /\ UNCHANGED <<stored, exited_with, started, initial_end>>

Next ==
    \/ \E s \in MetaStates : Activate(s)
    \/ \E s \in MetaStates : Deactivate(s)
    \/ Reset
    \/ \E h \in MetaHistoryKeys, s \in MetaActualStates : StoreHistoryInfo(h, s)
    \/ \E h \in MetaHistoryKeys : GetHistoryState(h)

Spec == Init /\ [][Next]_vars

(***************************************************************************)
(* The state hierarchy.  Structure of the chart.                           *)
(***************************************************************************)
\* The Initial pseudostate of a context, None if it has none.
InitialOf(s) ==
    CASE s[1] = "statechart" -> init
      [] s[1] = "top" -> init_submachine(s[2])
      [] s[1] = "lock" -> lock_initial(s[2])
      [] OTHER -> None

\* The History pseudostate of a context, None if it has none.
HistoryOf(s) ==
    CASE s[1] = "top" -> history(s[2])
      [] OTHER -> None

\* The regions of a Concurrent state, in declaration order.
RegionsOf(s) ==
    CASE s[1] = "keyboard" -> [i \in Regions |-> lock(i)]
      [] OTHER -> <<>>

Transition(start, end, event) == [start |-> start, end |-> end, event |-> event]

\* State._transitions: the outgoing transitions of a state, in declaration order.
Transitions(s) ==
    CASE s[1] = "init" -> <<Transition(s, initial_end, NoEvent)>>
      [] s[1] = "init_submachine" -> <<Transition(s, sub_state_a(s[2]), NoEvent)>>
      [] s[1] = "sub_state_a" -> <<Transition(s, sub_state_b(s[2]), sub_cd)>>
      [] s = sub_state_b(1) -> <<Transition(s, top(2), leave)>>
      [] s = top(1) -> <<Transition(s, top(2), top_ab)>>
      [] s = top(2) -> <<Transition(s, top(1), top_ba), Transition(s, keyboard, to_keyboard)>>
      [] s = keyboard -> <<Transition(s, sub_state_b(1), kb_exit)>>
      [] s[1] = "lock_initial" -> <<Transition(s, lock_off(s[2]), NoEvent)>>
      [] s[1] = "lock_off" -> <<Transition(s, lock_on(s[2]), lock_pressed(s[2]))>>
      [] s[1] = "lock_on" -> <<Transition(s, lock_off(s[2]), lock_pressed(s[2]))>>
      [] OTHER -> <<>>

RECURSIVE Ancestors(_)
\* The contexts of a state, innermost first, up to the root.
Ancestors(s) ==
    IF Context(s) = None THEN <<>> ELSE <<Context(s)>> \o Ancestors(Context(s))

Range(seq) == {seq[i] : i \in DOMAIN seq}

Reverse(seq) == [i \in DOMAIN seq |-> seq[Len(seq) + 1 - i]]

\* Position of the lowest common ancestor of start and end among start's ancestors.
CommonIndex(start, end) ==
    CHOOSE i \in DOMAIN Ancestors(start) :
        /\ Ancestors(start)[i] \in Range(Ancestors(end))
        /\ \A j \in 1 .. (i - 1) : Ancestors(start)[j] \notin Range(Ancestors(end))

\* The lowest state that contains both start and end.
CommonAncestor(start, end) == Ancestors(start)[CommonIndex(start, end)]

\* The states a transition exits: start, then outward, up to the common ancestor.
ExitPath(start, end) ==
    <<start>> \o SubSeq(Ancestors(start), 1, CommonIndex(start, end) - 1)

\* The states a transition enters above end, outermost first.
EntryPath(start, end) ==
    Reverse(SubSeq(Ancestors(end), 1, CommonIndex(end, start) - 1))

(***************************************************************************)
(* The state hierarchy.  Activation, deactivation, dispatch.               *)
(***************************************************************************)
RECURSIVE State_activate(_, _)
RECURSIVE State_deactivate(_, _)
RECURSIVE State_dispatch(_, _, _)
RECURSIVE State_dispatch_final_as_simple(_, _, _)
RECURSIVE Transition_execute(_, _, _)
RECURSIVE ActivateAll(_, _)
RECURSIVE DeactivateAll(_, _)
RECURSIVE RegisterAll(_, _)
RECURSIVE TryTransitions(_, _, _)
RECURSIVE DispatchRegions(_, _, _, _)

\* activate each state of a sequence, in order, with its default entry path.
ActivateAll(md, states) ==
    IF states = <<>> THEN md
    ELSE ActivateAll(State_activate(md, Head(states)), Tail(states))

\* deactivate each state of a sequence, in order.
DeactivateAll(md, states) ==
    IF states = <<>> THEN md
    ELSE DeactivateAll(State_deactivate(md, Head(states)), Tail(states))

\* Register each state of a sequence as active, in order, without its default entry.
RegisterAll(md, states) ==
    IF states = <<>> THEN md
    ELSE RegisterAll(activate(md, Head(states)), Tail(states))

\* State.activate and its variants: register the state; an Initial state fires its
\* transition; a Composite enters the state its History remembers, else its
\* Initial state; a Concurrent state enters every region.
State_activate(md, s) ==
    IF md.error # NoError THEN md
    ELSE
    LET m1 == activate(md, s)
    IN  CASE Kind(s) = "Initial" -> State_dispatch(m1, s, NoEvent)
          [] Kind(s) \in {"Composite", "Statechart"} ->
                IF HistoryOf(s) # None /\ has_history_info(m1, HistoryOf(s))
                THEN LET got == get_history_state(m1, HistoryOf(s))
                     IN  State_activate(got, got.value)
                ELSE IF InitialOf(s) # None
                     THEN State_activate(m1, InitialOf(s))
                     ELSE m1
          [] Kind(s) = "Concurrent" -> ActivateAll(m1, RegionsOf(s))
          [] OTHER -> m1

\* State.deactivate and its variants: a Composite records its substate for its
\* History and exits it; a Concurrent state exits every region; then the state
\* is removed.  Deactivating an inactive state does nothing.
State_deactivate(md, s) ==
    IF md.error # NoError THEN md
    ELSE IF ~ is_active(md, s) THEN deactivate(md, s)
    ELSE
    CASE Kind(s) = "Composite" ->
            LET cur == md.active_states[s]
                m1 == IF cur # None /\ HistoryOf(s) # None
                      THEN store_history_info(md, HistoryOf(s), cur)
                      ELSE md
                m2 == IF cur # None THEN State_deactivate(m1, cur) ELSE m1
            IN  deactivate(m2, s)
      [] Kind(s) = "Concurrent" -> deactivate(DeactivateAll(md, RegionsOf(s)), s)
      [] OTHER -> deactivate(md, s)

\* A variant of Transition.execute that fires whatever the event is.
Transition_execute_any_event(md, t, event) ==
    IF md.error # NoError THEN md
    ELSE
    LET m0 == Note(md, "execute", t.start, t.end)
        m1 == DeactivateAll(m0, ExitPath(t.start, t.end))
        act == IF m1.error # NoError THEN m1 ELSE Note(m1, "action", t.start, t.end)
        m2 == RegisterAll(act, EntryPath(t.start, t.end))
        m3 == State_activate(m2, t.end)
    IN  IF m3.error # NoError THEN m3
        ELSE [Note(m3, "done", t.start, t.end) EXCEPT !.consumed = TRUE]

\* Transition.execute: if the event is the transition's, exit from start up to the
\* common ancestor, run the action, enter from there down to end, then end's
\* default entry path.  The log marks where the firing begins ("execute"), where
\* the action runs if the transition has one ("action") and where it ends ("done").
Transition_execute(md, t, event) ==
    IF md.error # NoError THEN md
    ELSE IF t.event # event THEN [md EXCEPT !.consumed = FALSE]
    ELSE
    LET m0 == Note(md, "execute", t.start, t.end)
        m1 == DeactivateAll(m0, ExitPath(t.start, t.end))
        act == IF m1.error # NoError THEN m1 ELSE Note(m1, "action", t.start, t.end)
        m2 == RegisterAll(act, EntryPath(t.start, t.end))
        m3 == State_activate(m2, t.end)
    IN  IF m3.error # NoError THEN m3
        ELSE [Note(m3, "done", t.start, t.end) EXCEPT !.consumed = TRUE]

\* The first transition of the sequence that executes wins.
TryTransitions(md, ts, event) ==
    IF md.error # NoError THEN md
    ELSE IF ts = <<>> THEN [md EXCEPT !.consumed = FALSE]
    ELSE
    LET m1 == Transition_execute(md, Head(ts), event)
    IN  IF m1.error # NoError \/ m1.consumed THEN m1
        ELSE TryTransitions(m1, Tail(ts), event)

\* Every active region receives the event once, in declaration order; any is
\* whether a region before these consumed it.
DispatchRegions(md, regions, event, any) ==
    IF md.error # NoError THEN md
    ELSE IF regions = <<>> THEN [md EXCEPT !.consumed = any]
    ELSE
    LET m1 == IF is_active(md, Head(regions))
              THEN State_dispatch(md, Head(regions), event)
              ELSE [md EXCEPT !.consumed = FALSE]
    IN  DispatchRegions(m1, Tail(regions), event, any \/ m1.consumed)

\* A variant of State.dispatch in which a Final state dispatches as a simple
\* state does.
State_dispatch_final_as_simple(m, s, event) ==
    IF m.error # NoError THEN m
    ELSE
    LET md == Note(m, "dispatch", s, event) IN
    CASE Kind(s) \in {"Composite", "Statechart"} ->
            LET cur == IF is_active(md, s) THEN md.active_states[s] ELSE None
                m1 == IF cur # None /\ is_active(md, cur)
                      THEN State_dispatch(md, cur, event)
                      ELSE [md EXCEPT !.consumed = FALSE]
            IN  IF m1.error # NoError \/ m1.consumed THEN m1
                ELSE TryTransitions(m1, Transitions(s), event)
      [] Kind(s) = "Concurrent" ->
            LET m1 == DispatchRegions(md, RegionsOf(s), event, FALSE)
            IN  IF m1.error # NoError \/ m1.consumed THEN m1
                ELSE TryTransitions(m1, Transitions(s), event)
      [] OTHER -> TryTransitions(md, Transitions(s), event)

\* State.dispatch and its variants.  The innermost active state tries its
\* transitions first; an event it cannot handle goes to its context, and so on
\* outward.  A Concurrent state hands the event to every active region and tries
\* its own transitions if no region consumed it.  A Final state fails.
State_dispatch(m, s, event) ==
    IF m.error # NoError THEN m
    ELSE
    LET md == Note(m, "dispatch", s, event) IN
    CASE Kind(s) = "Final" -> [md EXCEPT !.error = DispatchIntoFinal]
      [] Kind(s) \in {"Composite", "Statechart"} ->
            LET cur == IF is_active(md, s) THEN md.active_states[s] ELSE None
                m1 == IF cur # None /\ is_active(md, cur)
                      THEN State_dispatch(md, cur, event)
                      ELSE [md EXCEPT !.consumed = FALSE]
            IN  IF m1.error # NoError \/ m1.consumed THEN m1
                ELSE TryTransitions(m1, Transitions(s), event)
      [] Kind(s) = "Concurrent" ->
            LET m1 == DispatchRegions(md, RegionsOf(s), event, FALSE)
            IN  IF m1.error # NoError \/ m1.consumed THEN m1
                ELSE TryTransitions(m1, Transitions(s), event)
      [] OTHER -> TryTransitions(md, Transitions(s), event)

\* Statechart.start: the root's activation path.
Statechart_start(md) == [State_activate(md, statechart) EXCEPT !.value = None]

\* Statechart.dispatch: the event goes to the active states under the root;
\* the result is whether one of them consumed it.
Statechart_dispatch(md, event) ==
    [State_dispatch(md, statechart, event) EXCEPT !.value = None]

(***************************************************************************)
(* ChartSpec: a chart is built, started once, and then receives events.    *)
(***************************************************************************)
InitialEnds == {top(1), top(2), keyboard}

\* The active child of context c in an active-state map, None if it has none.
ActiveChild(amap, c) ==
    IF \E s \in DOMAIN amap : Context(s) = c
    THEN CHOOSE s \in DOMAIN amap : Context(s) = c
    ELSE None

\* exited_with after a call that ended with frame md: a context that was active
\* and no longer is was exited with the substate it had when the call was made.
ExitedWith(md) ==
    [c \in HistoryContexts |->
        IF c \in DOMAIN active_states /\ c \notin DOMAIN md.active_states
        THEN ActiveChild(active_states, c)
        ELSE exited_with[c]]

ChartInit ==
    /\ active_states = Metadata_init.active_states
    /\ history_states = Metadata_init.history_states
    /\ call = NoCall
    /\ pre = NoSnapshot
    /\ stored = NothingStored
    /\ exited_with = NeverExited
    /\ trace = <<>>
    /\ started = FALSE
    /\ initial_end \in InitialEnds
    /\ transitions = [s \in States |-> Transitions(s)]
    /\ scope = NewScope

Start ==
    /\ ~ started
    /\ started' = TRUE
    /\ \E md \in {Statechart_start(Frame)} :
          /\ Returns(md, "start", None, None, NoEvent)
          /\ exited_with' = ExitedWith(md)
    /\ UNCHANGED <<stored, initial_end>>

Dispatch(event) ==
    /\ started
    /\ \E md \in {Statechart_dispatch(Frame, event)} :
          /\ Returns(md, "dispatch", None, None, event)
          /\ exited_with' = ExitedWith(md)
    /\ UNCHANGED <<stored, started, initial_end>>

ChartNext ==
    \/ Start
    \/ \E event \in Events : Dispatch(event)

ChartSpec == ChartInit /\ [][ChartNext]_vars

(***************************************************************************)
(* FinalSpec: the started chart, whose Final state a caller may activate   *)
(* and dispatch to directly, as the tests of FinalState do.                *)
(***************************************************************************)
\* final_state.activate(statechart.metadata, param)
FinalActivate ==
    /\ started
    /\ \E md \in {State_activate(Frame, final_state)} :
          /\ Returns(md, "State.activate", final_state, None, NoEvent)
          /\ exited_with' = ExitedWith(md)
    /\ UNCHANGED <<stored, started, initial_end>>

\* final_state.dispatch(metadata=statechart.metadata, event=event, param)
FinalDispatch(event) ==
    /\ \E md \in {State_dispatch(Frame, final_state, event)} :
          /\ Returns(md, "State.dispatch", final_state, None, event)
          /\ exited_with' = ExitedWith(md)
    /\ UNCHANGED <<stored, started, initial_end>>

\* final_state.deactivate(statechart.metadata, param)
FinalDeactivate ==
    /\ started
    /\ \E md \in {State_deactivate(Frame, final_state)} :
          /\ Returns(md, "State.deactivate", final_state, None, NoEvent)
          /\ exited_with' = ExitedWith(md)
    /\ UNCHANGED <<stored, started, initial_end>>

\* The events dispatched to the chart and to its Final state.
FinalEvents == {top_ab, sub_cd, unhandled}

FinalNext ==
    \/ Start
    \/ \E event \in FinalEvents : Dispatch(event)
    \/ FinalActivate
    \/ FinalDeactivate
    \/ \E event \in FinalEvents : FinalDispatch(event)

FinalSpec == ChartInit /\ [][FinalNext]_vars

(***************************************************************************)
(* BuildSpec: a chart under construction; Transitions are constructed      *)
(* between its states.                                                     *)
(***************************************************************************)
MaxTransitions == 2

\* The starts and ends handed to the constructor.
BuildStates == {statechart, final_state, init, top(1), sub_state_a(1)}

BuildEvents == {NoEvent, top_ab}

\* The number of transitions constructed so far.
RECURSIVE Count(_, _)
Count(owned, states) ==
    IF states = {} THEN 0
    ELSE LET s == CHOOSE x \in states : TRUE
         IN  Len(owned[s]) + Count(owned, states \ {s})

\* A variant of Transition.__init__ that checks the end only.
Transition_init_checks_end_only(owned, start, end, event) ==
    IF Kind(end) = "Initial"
    THEN [transitions |-> owned, error |-> InvalidTransition]
    ELSE [transitions |-> [owned EXCEPT ![start] = Append(@, Transition(start, end, event))],
          error |-> NoError]

\* Transition.__init__: a Final state or the chart root as start, or an Initial
\* state as end, is an error; else the transition joins its start's transitions.
Transition_init(owned, start, end, event) ==
    IF Kind(start) \in {"Final", "Statechart"} \/ Kind(end) = "Initial"
    THEN [transitions |-> owned, error |-> InvalidTransition]
    ELSE [transitions |-> [owned EXCEPT ![start] = Append(@, Transition(start, end, event))],
          error |-> NoError]

BuildInit ==
    /\ active_states = Metadata_init.active_states
    /\ history_states = Metadata_init.history_states
    /\ call = NoCall
    /\ pre = NoSnapshot
    /\ stored = NothingStored
    /\ exited_with = NeverExited
    /\ trace = <<>>
    /\ started = FALSE
    /\ initial_end = top(1)
    /\ transitions = NoTransitions
    /\ scope = NewScope

\* Transition(name, start=start, end=end, event=event)
AddTransition(start, end, event) ==
    /\ Count(transitions, States) < MaxTransitions
    /\ transitions' = Transition_init(transitions, start, end, event).transitions
    /\ call' = [NoCall EXCEPT !.op = "Transition", !.state = start, !.key = end,
                              !.event = event,
                              !.error = Transition_init(transitions, start, end, event).error]
    /\ pre' = Snapshot
    /\ UNCHANGED <<active_states, history_states, stored, exited_with, started,
                   initial_end, trace, scope>>

BuildNext == \E start, end \in BuildStates, event \in BuildEvents : AddTransition(start, end, event)

BuildSpec == BuildInit /\ [][BuildNext]_vars

(***************************************************************************)
(* ScopeSpec: items are assigned in a Scope made of any layers.            *)
(***************************************************************************)
ScopeInit ==
    /\ active_states = Metadata_init.active_states
    /\ history_states = Metadata_init.history_states
    /\ call = NoCall
    /\ pre = NoSnapshot
    /\ stored = NothingStored
    /\ exited_with = NeverExited
    /\ trace = <<>>
    /\ started = FALSE
    /\ initial_end = top(1)
    /\ transitions = NoTransitions
    /\ scope \in [maps : LayerLists, dicts : [Dicts -> DictValues]]

\* scope[key] = value
SetItem(key, value) ==
    /\ scope' = Scope_setitem(scope, key, value)
    /\ call' = [op |-> "Scope.__setitem__", state |-> None, key |-> key, event |-> NoEvent,
                error |-> NoError, value |-> value, consumed |-> FALSE]
    /\ pre' = Snapshot
    /\ UNCHANGED <<active_states, history_states, stored, exited_with, started,
                   initial_end, trace, transitions>>

ScopeNext == \E key \in Keys, value \in Values : SetItem(key, value)

ScopeSpec == ScopeInit /\ [][ScopeNext]_vars

(***************************************************************************)
(* Properties of Metadata, checked under Spec.                             *)
(***************************************************************************)
ActiveSet == DOMAIN active_states

PreActiveSet == DOMAIN pre.active_states

\* C1: activate(s) raises 'Parent state not activated' exactly when s has a
\* context that is not in the active set when the call is made; otherwise
\* (context active, or no context) it raises nothing.
C1_ActivateParentCheck ==
    call.op = "activate" =>
        /\ call.error \in {NoError, ParentNotActivated}
        /\ call.error = ParentNotActivated <=>
              (Context(call.state) # None /\ Context(call.state) \notin PreActiveSet)

\* A nested state is activated while the root is active but its own context,
\* once active, has been deactivated: the call fails.
C1_Witness ==
    /\ call.op = "activate"
    /\ call.error = ParentNotActivated
    /\ call.state = sub_state_a(1)
    /\ statechart \in PreActiveSet
    /\ top(1) \notin PreActiveSet

\* C2: after a successful activate(s), s is active with current_state None,
\* the record of its context (if any) has current_state s, and no other state
\* entered or left the active set.
C2_ActivateEffect ==
    (call.op = "activate" /\ call.error = NoError) =>
        /\ call.state \in ActiveSet
        /\ active_states[call.state] = None
        /\ Context(call.state) # None =>
              /\ Context(call.state) \in ActiveSet
              /\ active_states[Context(call.state)] = call.state
        /\ ActiveSet = PreActiveSet \cup {call.state}

\* An already active state that recorded a child is activated again.
C2_Witness ==
    /\ call.op = "activate"
    /\ call.error = NoError
    /\ call.state = top(1)
    /\ top(1) \in PreActiveSet
    /\ pre.active_states[top(1)] = sub_state_a(1)
    /\ active_states[top(1)] = None
    /\ active_states[statechart] = top(1)

\* C3: after deactivate(s), s is not active and every other state is active
\* exactly if it was before.
C3_DeactivateEffect ==
    call.op = "deactivate" =>
        /\ ~ is_active(Snapshot, call.state)
        /\ ActiveSet = PreActiveSet \ {call.state}

\* An active state with an active child is deactivated: the child stays.
C3_Witness ==
    /\ call.op = "deactivate"
    /\ call.state = top(1)
    /\ top(1) \in PreActiveSet
    /\ sub_state_a(1) \in PreActiveSet
    /\ sub_state_a(1) \in ActiveSet

\* C4: deactivate(s) of a state that is not active raises nothing and leaves
\* the active set, every record and the history map as they were.
C4_DeactivateInactiveNoOp ==
    (call.op = "deactivate" /\ call.state \notin PreActiveSet) =>
        /\ call.error = NoError
        /\ active_states = pre.active_states
        /\ history_states = pre.history_states

\* The second of two deactivate(s) in a row, on a Metadata that holds active
\* states and history.
C4_Witness ==
    /\ call.op = "deactivate"
    /\ call.state \notin PreActiveSet
    /\ call.state = top(1)
    /\ statechart \in ActiveSet
    /\ active_states[statechart] = top(1)
    /\ sub_state_a(1) \in ActiveSet
    /\ DOMAIN history_states # {}

\* C10: has_history_info(h) is true exactly when store_history_info(h, .) was
\* called since the last reset; then get_history_state(h) returns the state of
\* the latest such call; otherwise get_history_state(h) raises and changes
\* nothing; activate and deactivate leave the history map alone.
C10_HistoryMap ==
    /\ \A h \in MetaHistoryKeys :
          /\ has_history_info(Snapshot, h) <=> stored[h] # None
          /\ LET got == get_history_state(Frame, h)
             IN  /\ got.active_states = active_states
                 /\ got.history_states = history_states
                 /\ IF stored[h] # None
                    THEN got.error = NoError /\ got.value = stored[h]
                    ELSE got.error # NoError
    /\ call.op = "get_history_state" =>
          /\ active_states = pre.active_states
          /\ history_states = pre.history_states
          /\ IF stored[call.key] # None
             THEN call.error = NoError /\ call.value = stored[call.key]
             ELSE call.error # NoError
    /\ call.op \in {"activate", "deactivate"} =>
          history_states = pre.history_states

\* A key is stored a second time with another state while the other key holds
\* a state too.
C10_Witness ==
    /\ call.op = "store_history_info"
    /\ call.key = history(1)
    /\ history(1) \in DOMAIN pre.history_states
    /\ pre.history_states[history(1)] = sub_state_a(1)
    /\ call.state = sub_state_b(1)
    /\ history(2) \in DOMAIN history_states
    /\ history_states[history(2)] = sub_state_a(1)

\* C11: after reset(), no state is active and no history key has history: the
\* one call empties both maps.
C11_ResetClearsBoth ==
    call.op = "reset" =>
        /\ call.error = NoError
        /\ \A s \in States : ~ is_active(Snapshot, s)
        /\ \A h \in States : ~ has_history_info(Snapshot, h)
        /\ active_states = EmptyMap
        /\ history_states = EmptyMap

\* reset() is called on a Metadata that holds active states and history.
C11_Witness ==
    /\ call.op = "reset"
    /\ sub_state_a(1) \in PreActiveSet
    /\ top(1) \in PreActiveSet
    /\ DOMAIN pre.history_states = MetaHistoryKeys
    /\ active_states = EmptyMap

\* C17: wherever activate(s) succeeds, a second activate(s) right after it
\* succeeds too and leaves the active set, every record and the history map as
\* the first call left them.
C17_ActivateIdempotent ==
    \A s \in MetaStates :
        LET once == activate(Frame, s)
            twice == activate(once, s)
        IN  once.error = NoError =>
                /\ twice.error = NoError
                /\ twice.active_states = once.active_states
                /\ twice.history_states = once.history_states

\* activate(s) was just called a second time in a row on a nested state whose
\* context records it: the call changed nothing.
C17_Witness ==
    /\ call.op = "activate"
    /\ call.error = NoError
    /\ call.state = sub_state_a(1)
    /\ sub_state_a(1) \in PreActiveSet
    /\ top(1) \in PreActiveSet
    /\ pre.active_states[top(1)] = sub_state_a(1)
    /\ pre.active_states[sub_state_a(1)] = None
    /\ active_states = pre.active_states
    /\ history_states = pre.history_states

\* C18: the current_state of every active state's record is None or an
\* immediate child of that state that is itself active.
C18_CurrentStateActive ==
    \A s \in ActiveSet :
        \/ active_states[s] = None
        \/ /\ Context(active_states[s]) = s
           /\ active_states[s] \in ActiveSet

\* C21: an activate(s) that fails with 'Parent state not activated' leaves
\* Metadata unchanged: s is active afterwards only if it was before the call,
\* and no runtime record's current_state is modified.
C21_FailedActivateUnchanged ==
    (call.op = "activate" /\ call.error = ParentNotActivated) =>
        /\ call.state \in ActiveSet => call.state \in PreActiveSet
        /\ \A s \in ActiveSet \cap PreActiveSet :
               active_states[s] = pre.active_states[s]
        /\ history_states = pre.history_states

(***************************************************************************)
(* Properties of the chart, checked under ChartSpec.                       *)
(***************************************************************************)
Children(c) == {s \in States : Context(s) = c}

\* The end of the Initial transition of context c.
InitialTarget(c) == Transitions(InitialOf(c))[1].end

\* State s has a transition triggered by event.
Handles(s, event) == \E i \in DOMAIN Transitions(s) : Transitions(s)[i].event = event

\* The end of the first transition of s triggered by event.
TargetOf(s, event) ==
    Transitions(s)[CHOOSE i \in DOMAIN Transitions(s) :
                      /\ Transitions(s)[i].event = event
                      /\ \A j \in 1 .. (i - 1) : Transitions(s)[j].event # event].end

\* Region r has a state with a transition triggered by event.
RegionDeclares(r, event) == \E s \in Children(r) : Handles(s, event)

\* When the call was made, region r was active and its active substate had a
\* transition triggered by event.
RegionHandled(r, event) ==
    /\ r \in PreActiveSet
    /\ ActiveChild(pre.active_states, r) # None
    /\ Handles(ActiveChild(pre.active_states, r), event)

\* Region r and its substates are as they were when the call was made.
RegionUnchanged(r) ==
    /\ r \in ActiveSet <=> r \in PreActiveSet
    /\ \A s \in Children(r) : s \in ActiveSet <=> s \in PreActiveSet
    /\ r \in ActiveSet => active_states[r] = pre.active_states[r]

\* C5: with the Concurrent state active, an event that matches a transition of
\* the active substate of one region and no transition of another region fires
\* the first region's transition only: every such other region is unchanged, and
\* the Concurrent state stays active.
C5_RegionIndependence ==
    (/\ call.op = "dispatch"
     /\ keyboard \in PreActiveSet
     /\ \E a \in Regions : RegionHandled(lock(a), call.event)) =>
        /\ call.error = NoError
        /\ call.consumed
        /\ keyboard \in ActiveSet
        /\ \A r \in Regions :
              IF RegionHandled(lock(r), call.event)
              THEN LET source == ActiveChild(pre.active_states, lock(r))
                   IN  /\ source \notin ActiveSet
                       /\ TargetOf(source, call.event) \in ActiveSet
                       /\ lock(r) \in ActiveSet
                       /\ active_states[lock(r)] = TargetOf(source, call.event)
              ELSE ~ RegionDeclares(lock(r), call.event) => RegionUnchanged(lock(r))

\* The first region's key is pressed while the second region is on: the first
\* region goes on, the second stays on.
C5_Witness ==
    /\ call.op = "dispatch"
    /\ call.event = lock_pressed(1)
    /\ keyboard \in PreActiveSet
    /\ lock_off(1) \in PreActiveSet
    /\ lock_on(2) \in PreActiveSet
    /\ lock_on(1) \in ActiveSet
    /\ lock_on(2) \in ActiveSet

\* C6: after start(), the end of the root's Initial transition is active, every
\* active Composite state has the end of its Initial transition active, and
\* every active Concurrent state has each region active with the end of the
\* region's Initial transition.
C6_StartDefaultEntry ==
    call.op = "start" =>
        /\ call.error = NoError
        /\ InitialTarget(statechart) \in ActiveSet
        /\ \A s \in ActiveSet :
              /\ Kind(s) = "Composite" => InitialTarget(s) \in ActiveSet
              /\ Kind(s) = "Concurrent" =>
                    \A i \in DOMAIN RegionsOf(s) :
                        /\ RegionsOf(s)[i] \in ActiveSet
                        /\ InitialTarget(RegionsOf(s)[i]) \in ActiveSet

\* The chart whose root enters the keyboard: every region is off after start().
C6_Witness ==
    /\ call.op = "start"
    /\ initial_end = keyboard
    /\ keyboard \in ActiveSet
    /\ \A r \in Regions : lock(r) \in ActiveSet /\ lock_off(r) \in ActiveSet

\* Composite c1 is active with an active substate, none of its active substates
\* handles the event, and c1 has a transition on the event to sibling Composite c2.
Bubbles(c1, c2, event) ==
    /\ Kind(c1) = "Composite" /\ Kind(c2) = "Composite"
    /\ c1 # c2 /\ Context(c1) = Context(c2)
    /\ c1 \in PreActiveSet
    /\ \E s \in Children(c1) : s \in PreActiveSet
    /\ \A s \in Children(c1) : s \in PreActiveSet => ~ Handles(s, event)
    /\ Handles(c1, event) /\ TargetOf(c1, event) = c2

\* The state the default entry of Composite c activates, given the history map
\* hmap: the state its History remembers, else the end of its Initial transition.
DefaultEntry(c, hmap) ==
    IF HistoryOf(c) # None /\ HistoryOf(c) \in DOMAIN hmap
    THEN hmap[HistoryOf(c)]
    ELSE InitialTarget(c)

\* C7 as claimed: the event bubbles to c1, is consumed, c1 and its substates
\* are exited, and c2 is active with the end of its Initial transition.
C7_BubbleToInitial ==
    \A c1, c2 \in States :
        (call.op = "dispatch" /\ Bubbles(c1, c2, call.event)) =>
            /\ call.consumed
            /\ c1 \notin ActiveSet
            /\ \A s \in Children(c1) : s \notin ActiveSet
            /\ c2 \in ActiveSet
            /\ InitialTarget(c2) \in ActiveSet

\* C7, amended: the event bubbles to c1, is consumed, c1 and its substates are
\* exited, and c2 is active with its default entry: the state c2's History
\* remembers if it has one with history recorded, else the end of its Initial
\* transition.
C7_BubbleToDefaultEntry ==
    \A c1, c2 \in States :
        (call.op = "dispatch" /\ Bubbles(c1, c2, call.event)) =>
            /\ call.error = NoError
            /\ call.consumed
            /\ c1 \notin ActiveSet
            /\ \A s \in Children(c1) : s \notin ActiveSet
            /\ c2 \in ActiveSet
            /\ DefaultEntry(c2, pre.history_states) \in ActiveSet
            /\ active_states[c2] = DefaultEntry(c2, pre.history_states)

\* 'top b' is left from its second substate for 'top a', which was exited
\* before with its second substate: 'top b' and its substates are exited and
\* 'top a' is entered at the remembered substate.
C7_Witness ==
    /\ call.op = "dispatch"
    /\ call.event = top_ba
    /\ Bubbles(top(2), top(1), top_ba)
    /\ sub_state_b(2) \in PreActiveSet
    /\ history(1) \in DOMAIN pre.history_states
    /\ pre.history_states[history(1)] = sub_state_b(1)
    /\ top(2) \notin ActiveSet
    /\ sub_state_b(1) \in ActiveSet

\* The active states and their ancestors when the call was made.
PreActivePath == PreActiveSet \cup UNION {Range(Ancestors(s)) : s \in PreActiveSet}

\* C8: dispatch of an event that no active state and no ancestor of one has a
\* transition for returns false and leaves the active set, every record and the
\* history map as they were.
C8_UnmatchedDispatch ==
    (/\ call.op = "dispatch"
     /\ \A s \in PreActivePath : ~ Handles(s, call.event)) =>
        /\ call.error = NoError
        /\ ~ call.consumed
        /\ active_states = pre.active_states
        /\ history_states = pre.history_states

\* An event the chart declares, for a state that is not active now, arrives
\* while history is recorded.
C8_Witness ==
    /\ call.op = "dispatch"
    /\ call.event = sub_cd
    /\ sub_state_b(2) \in PreActiveSet
    /\ \A s \in PreActivePath : ~ Handles(s, call.event)
    /\ DOMAIN history_states # {}

\* Context c was entered by this call through its default entry: it was not
\* active, it is now, and the transition that fired ends at c itself.
EnteredByDefault(c) ==
    /\ c \notin PreActiveSet
    /\ c \in ActiveSet
    /\ \/ call.op = "start" /\ InitialTarget(statechart) = c
       \/ /\ call.op = "dispatch"
          /\ \E s \in PreActiveSet : Handles(s, call.event) /\ TargetOf(s, call.event) = c

\* C9: a context with a History that was last exited with substate X active is
\* entered, by its default entry, at X, and the end of its Initial transition is
\* then active only if it is X; a context never exited is entered at the end of
\* its Initial transition.
C9_HistoryRoundTrip ==
    \A c \in HistoryContexts :
        EnteredByDefault(c) =>
            IF exited_with[c] # None
            THEN /\ exited_with[c] \in ActiveSet
                 /\ active_states[c] = exited_with[c]
                 /\ \A s \in Children(c) : s \in ActiveSet => s = exited_with[c]
            ELSE /\ InitialTarget(c) \in ActiveSet
                 /\ \A s \in Children(c) : s \in ActiveSet => s = InitialTarget(c)

\* 'top a' was exited first with its first substate and later with its second;
\* it is entered again from 'top b' and its second substate is active.
C9_Witness ==
    /\ call.op = "dispatch"
    /\ call.event = top_ba
    /\ EnteredByDefault(top(1))
    /\ history(1) \in DOMAIN pre.history_states
    /\ pre.history_states[history(1)] = sub_state_b(1)
    /\ exited_with[top(1)] = sub_state_b(1)
    /\ sub_state_b(1) \in ActiveSet
    /\ sub_state_a(1) \notin ActiveSet

\* The state r and the states it contains.
Subtree(r) == {s \in States : s = r \/ r \in Range(Ancestors(s))}

\* Line i of the log is the firing of a transition triggered by the call's event.
Fires(i) ==
    /\ trace[i].op = "execute"
    /\ \E k \in DOMAIN Transitions(trace[i].state) :
           /\ Transitions(trace[i].state)[k].end = trace[i].arg
           /\ Transitions(trace[i].state)[k].event = call.event

\* Region r consumed the event of the call: a transition triggered by it fired in
\* the region or, no state of the region firing one, in a state that contains
\* the region (the event bubbles outward).
RegionConsumed(r) ==
    \E i \in DOMAIN trace :
        /\ Fires(i)
        /\ trace[i].state \in PreActiveSet
        /\ trace[i].state \in Subtree(r) \cup Range(Ancestors(r))

\* The regions of concurrent state c that were active when the call was made,
\* in declaration order.
PreActiveRegions(c) ==
    LET WasActive(r) == r \in PreActiveSet
    IN  SelectSeq(RegionsOf(c), WasActive)

\* The lines of the log where a region of concurrent state c receives an event.
RegionReceipts(c) ==
    LET Receipt(e) == e.op = "dispatch" /\ e.state \in Range(RegionsOf(c))
    IN  SelectSeq(trace, Receipt)

PreLeaves == {s \in PreActiveSet : \A c \in PreActiveSet : Context(c) # s}

\* State s received the call's event for dispatch.
Received(s) == \E i \in DOMAIN trace : trace[i] = Entry("dispatch", s, call.event)

\* Leaf l consumed the event of the call: a transition triggered by it fired in
\* l or, l having none, in one of the states that contain l (bubbling).
LeafConsumed(l) ==
    \E i \in DOMAIN trace :
        /\ Fires(i)
        /\ trace[i].state \in {l} \cup Range(Ancestors(l))

\* C13: Statechart.dispatch(event) has every active leaf state under the root
\* receive a dispatch with that same event, and returns true if and only if one
\* of them consumed it.
C13_DispatchToLeaves ==
    (call.op = "dispatch" /\ call.error = NoError) =>
        /\ \A l \in PreLeaves : Received(l)
        /\ \A i \in DOMAIN trace :
               (trace[i].op = "dispatch" /\ trace[i].state \in PreActiveSet)
                   => trace[i].arg = call.event
        /\ call.consumed <=> \E l \in PreLeaves : LeafConsumed(l)

\* The keyboard is active with one leaf per region; the second lock is pressed:
\* every leaf receives the event and the call returns true.
C13_Witness ==
    /\ call.op = "dispatch"
    /\ call.error = NoError
    /\ call.event = lock_pressed(2)
    /\ call.consumed
    /\ Cardinality(PreLeaves) = NumRegions
    /\ \A i \in Regions : lock_off(i) \in PreLeaves /\ Received(lock_off(i))
    /\ LeafConsumed(lock_off(2))
    /\ ~ LeafConsumed(lock_off(1))

\* The active immediate children of state s.
ActiveChildren(s) == {c \in ActiveSet : Context(c) = s}

\* C19: after start() and after every completed dispatch() the active set is a
\* well-formed configuration: every active state but the root has an active
\* context, an active Composite state (the root too) has at most one active
\* child, which is its recorded current_state, and an active Concurrent state
\* has all its regions active.
C19_WellFormedConfiguration ==
    (call.op \in {"start", "dispatch"} /\ call.error = NoError) =>
        \A s \in ActiveSet :
            /\ s # statechart => Context(s) \in ActiveSet
            /\ Kind(s) \in {"Composite", "Statechart"} =>
                   /\ Cardinality(ActiveChildren(s)) <= 1
                   /\ \A c \in ActiveChildren(s) : active_states[s] = c
            /\ Kind(s) = "Concurrent" =>
                   \A i \in DOMAIN RegionsOf(s) : RegionsOf(s)[i] \in ActiveSet

\* 'top b' is left for the keyboard: the keyboard and all its regions are
\* active, each region with one lock state, and 'top b' is not.
C19_Witness ==
    /\ call.op = "dispatch"
    /\ call.error = NoError
    /\ call.event = to_keyboard
    /\ top(2) \in PreActiveSet
    /\ top(2) \notin ActiveSet
    /\ ActiveChildren(statechart) = {keyboard}
    /\ \A i \in Regions : ActiveChildren(lock(i)) = {lock_off(i)}

\* The line of the log where the transition that begins firing at line i runs
\* its action, and the line where its firing ends.
ActionOf(i) ==
    CHOOSE a \in DOMAIN trace :
        /\ a > i
        /\ trace[a] = Entry("action", trace[i].state, trace[i].arg)
        /\ \A k \in (i + 1) .. (a - 1) :
               trace[k] # Entry("action", trace[i].state, trace[i].arg)

DoneOf(i) ==
    CHOOSE j \in DOMAIN trace :
        /\ j > i
        /\ trace[j] = Entry("done", trace[i].state, trace[i].arg)
        /\ \A k \in (i + 1) .. (j - 1) :
               trace[k] # Entry("done", trace[i].state, trace[i].arg)

\* The states that the lines of a log with operation op name, in order.
StatesOf(log, op) ==
    LET Is(e) == e.op = op
        lines == SelectSeq(log, Is)
    IN  [k \in DOMAIN lines |-> lines[k].state]

\* No state of the sequence comes before a state that it contains.
InnermostFirst(states) ==
    \A p, q \in DOMAIN states :
        p < q => states[p] \notin Range(Ancestors(states[q]))

\* No state of the sequence comes after a state that it contains.
OutermostFirst(states) ==
    \A p, q \in DOMAIN states :
        p < q => states[q] \notin Range(Ancestors(states[p]))

\* The firing that begins at line i of the log is in order: exits, innermost
\* first, with the history of an exited composite stored before the composite
\* is removed; then the action; then entries, outermost first.  (A substate
\* that the exit path has removed already is deactivated once more, to no
\* effect, when its composite is exited.)
FiresInOrder(i) ==
    LET start == trace[i].state
        end == trace[i].arg
        lca == CommonAncestor(start, end)
        kept == {lca} \cup Range(Ancestors(lca))
        before == SubSeq(trace, i + 1, ActionOf(i) - 1)
        after == SubSeq(trace, ActionOf(i) + 1, DoneOf(i) - 1)
        exited == StatesOf(before, "deactivate")
        entered == StatesOf(after, "activate")
        first == EntryPath(start, end) \o <<end>>
    IN  /\ \E a \in DOMAIN trace :
               a > i /\ trace[a] = Entry("action", start, end)
        /\ \E j \in DOMAIN trace :
               j > i /\ trace[j] = Entry("done", start, end)
        /\ ActionOf(i) < DoneOf(i)
        \* (1) the exits
        /\ \A k \in DOMAIN before : before[k].op \in {"deactivate", "store_history_info"}
        /\ Range(ExitPath(start, end)) \subseteq Range(exited)
        /\ \A k \in DOMAIN exited : exited[k] \in Subtree(start) \cup Range(ExitPath(start, end))
        /\ InnermostFirst(exited)
        /\ \A p, q \in DOMAIN before :
               (/\ p < q
                /\ before[p].op = "deactivate"
                /\ before[q].op = "deactivate"
                /\ Context(before[p].state) = before[q].state
                /\ HistoryOf(before[q].state) # None)
               => \E h \in 1 .. (q - 1) :
                      before[h] = Entry("store_history_info", HistoryOf(before[q].state), None)
        \* (3) the entries
        /\ Len(entered) >= Len(first)
        /\ SubSeq(entered, 1, Len(first)) = first
        /\ \A k \in (Len(first) + 1) .. Len(entered) : entered[k] \in Subtree(end) \ {end}
        /\ OutermostFirst(entered)
        \* the common ancestor and its ancestors stay
        /\ \A k \in i .. DoneOf(i) : trace[k].op = "deactivate" => trace[k].state \notin kept

\* The firing that begins at line i has, when the call returns, left the states
\* it exits and entered the states down to its end; the common ancestor stayed.
FiredOutcome(i) ==
    LET start == trace[i].state
        end == trace[i].arg
    IN  /\ \A s \in Range(ExitPath(start, end)) : s \notin ActiveSet
        /\ \A s \in Range(EntryPath(start, end)) \cup {end} : s \in ActiveSet
        /\ CommonAncestor(start, end) \in ActiveSet
        /\ \A c \in Range(ExitPath(start, end)) :
               (HistoryOf(c) # None /\ ActiveChild(pre.active_states, c) # None)
               => /\ HistoryOf(c) \in DOMAIN history_states
                  /\ history_states[HistoryOf(c)] = ActiveChild(pre.active_states, c)

\* C20: a firing transition first deactivates the states from its start outward
\* up to, not including, the lowest common ancestor of start and end, innermost
\* first, storing the history of exited composites; then its action runs; then
\* the states from the common ancestor down to end are activated, outermost
\* first, followed by end's default entry path.  The common ancestor and its
\* ancestors are never deactivated and nothing is activated before the action.
C20_TransitionFiringOrder ==
    call.error = NoError =>
        \A i \in DOMAIN trace :
            /\ trace[i].op = "execute" => FiresInOrder(i)
            /\ (call.op = "dispatch" /\ Fires(i)) => FiredOutcome(i)

\* The second substate of 'top a' fires its transition to 'top b': the substate
\* is exited, then 'top a', which stores its history and deactivates the
\* substate again; the action runs; 'top b' and its default entry are activated.
C20_Witness ==
    /\ call.op = "dispatch"
    /\ call.error = NoError
    /\ call.event = leave
    /\ call.consumed
    /\ \E i \in DOMAIN trace :
           /\ trace[i] = Entry("execute", sub_state_b(1), top(2))
           /\ StatesOf(SubSeq(trace, i + 1, ActionOf(i) - 1), "deactivate")
                  = <<sub_state_b(1), sub_state_b(1), top(1)>>
           /\ StatesOf(SubSeq(trace, ActionOf(i) + 1, DoneOf(i) - 1), "activate")
                  = <<top(2), init_submachine(2), sub_state_a(2)>>
    /\ history_states[history(1)] = sub_state_b(1)
    /\ sub_state_a(2) \in ActiveSet

(***************************************************************************)
(* Properties of the Final state, checked under FinalSpec.                 *)
(***************************************************************************)
\* C14: a dispatch made directly to a Final state fails with a runtime error,
\* whichever the event and whether or not the Final state is active; it fires no
\* transition and leaves the active states as they were.
C14_FinalRejectsDispatch ==
    (call.op = "State.dispatch" /\ call.state = final_state) =>
        /\ call.error = DispatchIntoFinal
        /\ ~ call.consumed
        /\ active_states = pre.active_states
        /\ history_states = pre.history_states
        /\ \A i \in DOMAIN trace : trace[i].op \notin {"execute", "activate", "deactivate"}

\* The chart is in 'top a' and the Final state has been activated; the event
\* that takes the chart to 'top b' is dispatched to the Final state.
C14_Witness ==
    /\ call.op = "State.dispatch"
    /\ call.state = final_state
    /\ call.event = top_ab
    /\ call.error = DispatchIntoFinal
    /\ final_state \in PreActiveSet
    /\ top(1) \in PreActiveSet
    /\ top(1) \in ActiveSet

(***************************************************************************)
(* Properties of Transition construction, checked under BuildSpec.         *)
(***************************************************************************)
\* C15: constructing a Transition whose start is a Final state or the chart
\* root fails with an error and adds nothing to any state's transitions; so no
\* Final state and no chart root ever owns a transition.
C15_NoTransitionFromFinalOrRoot ==
    /\ (call.op = "Transition" /\ Kind(call.state) \in {"Final", "Statechart"}) =>
           /\ call.error = InvalidTransition
           /\ transitions = pre.transitions
    /\ \A s \in States :
           Kind(s) \in {"Final", "Statechart"} => transitions[s] = <<>>

\* A state owns a transition already; a Transition from the Final state to the
\* root is constructed, as in the test, and fails.
C15_Witness ==
    /\ call.op = "Transition"
    /\ call.state = final_state
    /\ call.key = statechart
    /\ call.error = InvalidTransition
    /\ Len(pre.transitions[sub_state_a(1)]) = 1
    /\ transitions = pre.transitions

(***************************************************************************)
(* Properties of Scope, checked under ScopeSpec.                           *)
(***************************************************************************)
\* The dict that scope[key] = value is to change in scope sc: the first layer,
\* innermost first, that defines key, or the innermost layer if none does.
Target(sc, key) ==
    IF \E i \in DOMAIN sc.maps : key \in DOMAIN sc.dicts[sc.maps[i]]
    THEN sc.maps[CHOOSE i \in DOMAIN sc.maps :
                    /\ key \in DOMAIN sc.dicts[sc.maps[i]]
                    /\ \A j \in 1 .. (i - 1) : key \notin DOMAIN sc.dicts[sc.maps[j]]]
    ELSE sc.maps[1]

\* C16: scope[k] = v changes one layer only, the first layer innermost first
\* that defines k, or maps[0] when no layer does, and in it the key k only;
\* the list of layers is the same, and scope[k] then reads v.
C16_ScopeSetItem ==
    call.op = "Scope.__setitem__" =>
        LET k == call.key
            v == call.value
            target == Target(pre.scope, k)
        IN  /\ scope.maps = pre.scope.maps
            /\ \A d \in Dicts \ {target} : scope.dicts[d] = pre.scope.dicts[d]
            /\ DOMAIN scope.dicts[target] = DOMAIN pre.scope.dicts[target] \cup {k}
            /\ scope.dicts[target][k] = v
            /\ \A x \in DOMAIN pre.scope.dicts[target] \ {k} :
                   scope.dicts[target][x] = pre.scope.dicts[target][x]
            /\ Scope_getitem(scope, k) = v

\* The key is defined in the second layer only, a dict other than the first:
\* the write changes the second layer and the first still lacks the key.
C16_Witness ==
    /\ call.op = "Scope.__setitem__"
    /\ call.key = "x"
    /\ call.value = "v2"
    /\ Len(scope.maps) = 2
    /\ scope.maps[1] # scope.maps[2]
    /\ "x" \notin DOMAIN pre.scope.dicts[pre.scope.maps[1]]
    /\ "x" \in DOMAIN pre.scope.dicts[pre.scope.maps[2]]
    /\ pre.scope.dicts[pre.scope.maps[2]]["x"] = "v1"
    /\ scope.dicts[scope.maps[2]]["x"] = "v2"
    /\ "x" \notin DOMAIN scope.dicts[scope.maps[1]]

====
